---- MODULE Spec2Model ----
(***************************************************************************)
(* TransactionAnalyzer (src/index.js): an in-memory ledger of transaction  *)
(* records with one writer (addTransaction) and a family of queries.       *)
(*                                                                         *)
(* Two ledgers exist in the process: "analyzer", the module-level instance *)
(* built from transactions.json (src/index.js:277-278), and "other", a     *)
(* second instance built by a caller with `new TransactionAnalyzer(...)`.  *)
(*                                                                         *)
(* JavaScript primitives are records [k, n, d, s]: k is the kind           *)
(* ("number", "NaN", "Infinity", "undefined", "null", "string"); a number  *)
(* is the rational n/d in lowest terms; s holds the characters of a        *)
(* string. Strings that the code parses or compares (amounts, ids, object  *)
(* keys) are tuples of one-character strings. A transaction_date is the    *)
(* tuple <<yyyy, mm, dd>> of the fields of its ISO text; the local time    *)
(* zone is taken to be UTC, so `new Date(text)` has those calendar fields. *)
(***************************************************************************)
EXTENDS Integers, Sequences, FiniteSets, TLC

\* ---------------------------------------------------------------- bounds
MaxLen == 3           \* longest sequence held by the ledger "other"
MaxAnalyzerLen == 1   \* longest sequence held by the ledger "analyzer"

\* ------------------------------------------------------ JavaScript values
Num(i) == [k |-> "number", n |-> i, d |-> 1, s |-> <<>>]
NaN == [k |-> "NaN", n |-> 0, d |-> 1, s |-> <<>>]
Infinity == [k |-> "Infinity", n |-> 0, d |-> 1, s |-> <<>>]
Undefined == [k |-> "undefined", n |-> 0, d |-> 1, s |-> <<>>]
Null == [k |-> "null", n |-> 0, d |-> 1, s |-> <<>>]
\* a string value holding the characters s
Str(s) == [k |-> "string", n |-> 0, d |-> 1, s |-> s]

\* what a call returns: a primitive (val), an array of transaction objects
\* or one transaction object (objs), an array of strings or one string
\* (strs). ref is the identity of a returned array: "new" for an array the
\* call created, the ledger's name for that ledger's own this.transactions.
RetVal(v) ==
    [kind |-> "primitive", val |-> v, objs |-> <<>>, strs |-> <<>>, ref |-> "none"]
RetArray(a) ==
    [kind |-> "array", val |-> Undefined, objs |-> a, strs |-> <<>>, ref |-> "new"]
RetObject(o) ==
    [kind |-> "object", val |-> Undefined, objs |-> <<o>>, strs |-> <<>>, ref |-> "none"]
RetStrings(a) ==
    [kind |-> "strings", val |-> Undefined, objs |-> <<>>, strs |-> a, ref |-> "new"]
RetString(t) ==
    [kind |-> "string", val |-> Undefined, objs |-> <<>>, strs |-> <<t>>, ref |-> "none"]
RetBacking(l, a) ==
    [kind |-> "array", val |-> Undefined, objs |-> a, strs |-> <<>>, ref |-> l]

RECURSIVE Gcd(_, _)
Gcd(a, b) == IF b = 0 THEN a ELSE Gcd(b, a % b)

\* ToNumber: undefined -> NaN, null -> +0, a number is itself
ToNumber(v) ==
    IF v.k = "undefined" THEN NaN
    ELSE IF v.k = "null" THEN Num(0)
    ELSE v

\* a + b on numbers (the model only ever adds integers, or NaN)
JsAdd(a, b) ==
    IF a.k = "NaN" \/ b.k = "NaN" THEN NaN
    ELSE Num(a.n + b.n)

\* a / c for a number a and an array length c; 0/0 is NaN, x/0 is Infinity
JsDiv(a, c) ==
    IF a.k = "NaN" THEN NaN
    ELSE IF c = 0 THEN (IF a.n = 0 THEN NaN ELSE Infinity)
    ELSE LET g == Gcd(a.n, c)
         IN  [k |-> "number", n |-> a.n \div g, d |-> c \div g, s |-> <<>>]

\* a < b : false as soon as either side converts to NaN
JsLt(a, b) ==
    LET x == ToNumber(a)
        y == ToNumber(b)
    IN  x.k = "number" /\ y.k = "number" /\ x.n * y.d < y.n * x.d

JsGt(a, b) == JsLt(b, a)

JsLe(a, b) ==
    LET x == ToNumber(a)
        y == ToNumber(b)
    IN  x.k = "number" /\ y.k = "number" /\ x.n * y.d <= y.n * x.d

JsGe(a, b) == JsLe(b, a)

\* a === b
StrictEq(a, b) ==
    IF a.k = "NaN" \/ b.k = "NaN" THEN FALSE
    ELSE a = b

\* !v
Not(v) == v.k \in {"undefined", "null", "NaN"} \/ (v.k = "number" /\ v.n = 0)

\* ------------------------------------------------------- string parsing
Digits == <<"0", "1", "2", "3", "4", "5", "6", "7", "8", "9">>
IsDigit(c) == \E i \in 1..10 : Digits[i] = c
DigitVal(c) == (CHOOSE i \in 1..10 : Digits[i] = c) - 1

\* value of the longest prefix of decimal digits, acc digits read so far
RECURSIVE ParseDigits(_, _, _)
ParseDigits(s, i, acc) ==
    IF i > Len(s) \/ ~IsDigit(s[i]) THEN acc
    ELSE ParseDigits(s, i + 1, acc * 10 + DigitVal(s[i]))

\* parseFloat on a string of digits and letters: the longest numeric
\* prefix, NaN when the string does not start with a digit
ParseFloat(s) ==
    IF Len(s) = 0 \/ ~IsDigit(s[1]) THEN NaN
    ELSE Num(ParseDigits(s, 1, 0))

\* String(i) for a month index 0..11, as used for an object's property key
ToKey(i) ==
    IF i < 10 THEN <<Digits[i + 1]>>
    ELSE <<Digits[(i \div 10) + 1], Digits[(i % 10) + 1]>>

\* parseInt(v): v is a string, or null (the text "null" has no digits)
ParseInt(v) ==
    IF v.k # "string" THEN NaN
    ELSE IF Len(v.s) = 0 \/ ~IsDigit(v.s[1]) THEN NaN
    ELSE Num(ParseDigits(v.s, 1, 0))

\* ------------------------------------------------------------- records
Tx(id, date, amount, type, merchant, descr) ==
    [transaction_id |-> id, transaction_date |-> date,
     transaction_amount |-> amount, transaction_type |-> type,
     merchant_name |-> merchant, transaction_description |-> descr]

R1 == Tx(<<"1">>, <<2019, 1, 14>>, <<"1", "0", "0">>, "debit", "SuperMart", "Groceries")
R2 == Tx(<<"2">>, <<2019, 1, 15>>, <<"2", "0", "0">>, "credit", "Bank", "Salary")
R3 == Tx(<<"1">>, <<2019, 2, 14>>, <<"5", "0">>, "debit", "SuperMart", "Snacks")
R4 == Tx(<<"3">>, <<2020, 12, 31>>, <<"a", "b", "c">>, "transfer", "Bank", "Move")
Records == {R1, R2, R3, R4}

Ledgers == {"analyzer", "other"}
Cap(l) == IF l = "analyzer" THEN MaxAnalyzerLen ELSE MaxLen

\* the Date built by `new Date(transaction.transaction_date)`
NewDate(text) == [FullYear |-> text[1], Month |-> text[2] - 1, Date |-> text[3]]
getFullYear(dt) == Num(dt.FullYear)
getMonth(dt) == Num(dt.Month)
getDate(dt) == Num(dt.Date)

\* contents a ledger is constructed from: a failed or empty load, a
\* one-record file, a two-record file
InitialData == {<<>>, <<R1>>, <<R3, R2>>}

NoCall == [op |-> "none", self |-> "analyzer", args |-> <<>>, tx |-> <<>>]

\* the caller keeps no array
NoView == [of |-> "none", ref |-> "none", objs |-> <<>>]

VARIABLES transactions, initial, added, call, ret, errorReported, scanned, view
vars == <<transactions, initial, added, call, ret, errorReported, scanned, view>>

\* ---------------------------------------------------------------- state
\* transactions[l]: this.transactions of ledger l
\* initial[l]: the sequence l was constructed from; added[l]: the records
\*   passed to addTransaction on l, in call order (history)
\* call, ret: the last operation called with its receiver, its primitive
\*   arguments (args) and its transaction argument (tx), and what it
\*   returned
\* errorReported: the last call wrote to console.error
\* scanned: number of records the last call read
\* view: the array a caller kept from an earlier getAllTransactions():
\*   the ledger it asked (of), the identity of the array it got (ref) and,
\*   when that array belongs to no ledger, its elements (objs)

Init ==
    /\ initial \in [Ledgers -> InitialData]
    /\ transactions = initial
    /\ added = [l \in Ledgers |-> <<>>]
    /\ call = NoCall
    /\ ret = RetVal(Undefined)
    /\ errorReported = FALSE
    /\ scanned = 0
    /\ view = NoView

\* the caller holds no result: it is free to call the next operation
Idle == call = NoCall

\* the caller uses the returned value (console.log(...)) and drops it
Consume ==
    /\ ~Idle
    /\ call' = NoCall
    /\ ret' = RetVal(Undefined)
    /\ errorReported' = FALSE
    /\ scanned' = 0
    /\ UNCHANGED <<transactions, initial, added, view>>

\* Array.prototype.unshift in the place of push
PushFront(arr, x) == <<x>> \o arr

\* Array.prototype.push
Push(arr, x) == Append(arr, x)

AddTransaction(self, newTransaction) ==
    /\ Idle
    /\ Len(transactions[self]) < Cap(self)
    /\ transactions' = [transactions EXCEPT ![self] = Push(@, newTransaction)]
    /\ added' = [added EXCEPT ![self] = Append(@, newTransaction)]
    /\ call' = [op |-> "addTransaction", self |-> self, args |-> <<>>,
                tx |-> <<newTransaction>>]
    /\ ret' = RetVal(Undefined)
    /\ errorReported' = FALSE
    /\ scanned' = 0
    /\ UNCHANGED <<initial, view>>

\* `return [...this.transactions]`: a copy in the place of the array
ReturnTransactionsCopy(all, self) == RetArray(all[self])

\* `return this.transactions`: the ledger's own array, not a copy
ReturnTransactions(all, self) == RetBacking(self, all[self])

GetAllTransactions(self) ==
    /\ Idle
    /\ call' = [op |-> "getAllTransactions", self |-> self, args |-> <<>>, tx |-> <<>>]
    /\ ret' = ReturnTransactions(transactions, self)
    /\ errorReported' = FALSE
    /\ scanned' = 0
    /\ UNCHANGED <<transactions, initial, added, view>>

\* `const all = ledger.getAllTransactions()`: the caller keeps the array
\* the call returned
KeepView ==
    /\ call.op = "getAllTransactions"
    /\ view = NoView
    /\ view' = [of |-> call.self, ref |-> ret.ref,
                objs |-> IF ret.ref \in Ledgers THEN <<>> ELSE ret.objs]
    /\ UNCHANGED <<transactions, initial, added, call, ret, errorReported, scanned>>

\* the caller lets go of the array it kept
DropView ==
    /\ view # NoView
    /\ Idle
    /\ view' = NoView
    /\ UNCHANGED <<transactions, initial, added, call, ret, errorReported, scanned>>

\* what the caller reads through the array it kept: a ledger's own array
\* shows that ledger's current elements
ViewValue ==
    IF view.ref \in Ledgers THEN transactions[view.ref] ELSE view.objs

\* ------------------------------------------- getUniqueTransactionType
\* an Array in the place of the Set: every value is kept
SetAddNoDedupe(set, x) == Append(set, x)

\* Set.prototype.add on a Set kept as the sequence of its insertion order
SetAdd(set, x) ==
    IF \E i \in 1..Len(set) : set[i] = x THEN set ELSE Append(set, x)

RECURSIVE UniqueTypes(_, _, _)
UniqueTypes(ts, i, uniqueTypes) ==
    IF i > Len(ts) THEN uniqueTypes
    ELSE UniqueTypes(ts, i + 1, SetAdd(uniqueTypes, ts[i].transaction_type))

GetUniqueTransactionType(self) ==
    /\ Idle
    /\ call' = [op |-> "getUniqueTransactionType", self |-> self, args |-> <<>>, tx |-> <<>>]
    /\ ret' = RetStrings(UniqueTypes(transactions[self], 1, <<>>))
    /\ errorReported' = FALSE
    /\ scanned' = Len(transactions[self])
    /\ UNCHANGED <<transactions, initial, added, view>>

\* ----------------------------------------------- calculateTotalAmount
\* the array the loop of calculateTotalAmount reads: the one of the
\* module-level `analyzer`, whatever the receiver is
TotalAmountSource(all, self) == all["analyzer"]

RECURSIVE TotalLoop(_, _, _)
TotalLoop(ts, i, totalForAllTime) ==
    IF i > Len(ts) THEN totalForAllTime
    ELSE TotalLoop(ts, i + 1,
                   JsAdd(totalForAllTime, ParseFloat(ts[i].transaction_amount)))

CalculateTotalAmount(self) ==
    /\ Idle
    /\ call' = [op |-> "calculateTotalAmount", self |-> self, args |-> <<>>, tx |-> <<>>]
    /\ ret' = RetVal(TotalLoop(TotalAmountSource(transactions, self), 1, Num(0)))
    /\ errorReported' = FALSE
    /\ scanned' = Len(TotalAmountSource(transactions, self))
    /\ UNCHANGED <<transactions, initial, added, view>>

\* ----------------------------------------- calculateTotalAmountByDate
\* the validation without its upper bounds
InvalidDateLowerOnly(month, day) == JsLt(month, Num(1)) \/ JsLt(day, Num(1))

\* the validation `month < 1 || month > 12 || day < 1 || day > 31`
InvalidDate(month, day) ==
    JsLt(month, Num(1)) \/ JsGt(month, Num(12)) \/ JsLt(day, Num(1)) \/ JsGt(day, Num(31))

isSameDate(transactionDate, year, month, day) ==
    /\ (Not(year) \/ StrictEq(getFullYear(transactionDate), year))
    /\ (Not(month) \/ StrictEq(getMonth(transactionDate), JsAdd(ToNumber(month), Num(-1))))
    /\ (Not(day) \/ StrictEq(getDate(transactionDate), day))

RECURSIVE ByDateLoop(_, _, _, _, _, _)
ByDateLoop(ts, i, totalAmount, year, month, day) ==
    IF i > Len(ts) THEN totalAmount
    ELSE ByDateLoop(ts, i + 1,
            IF isSameDate(NewDate(ts[i].transaction_date), year, month, day)
            THEN JsAdd(totalAmount, ParseFloat(ts[i].transaction_amount))
            ELSE totalAmount,
            year, month, day)

CalculateTotalAmountByDate(self, year, month, day) ==
    /\ Idle
    /\ call' = [op |-> "calculateTotalAmountByDate", self |-> self,
                args |-> <<year, month, day>>, tx |-> <<>>]
    /\ IF InvalidDate(month, day)
       THEN /\ errorReported' = TRUE
            /\ ret' = RetVal(Num(0))
            /\ scanned' = 0
       ELSE /\ errorReported' = FALSE
            /\ ret' = RetVal(ByDateLoop(transactions[self], 1, Num(0), year, month, day))
            /\ scanned' = Len(transactions[self])
    /\ UNCHANGED <<transactions, initial, added, view>>

\* ----------------------------------- calculateAverageTransactionAmount
RECURSIVE Reduce(_, _, _)
Reduce(ts, i, accumulator) ==
    IF i > Len(ts) THEN accumulator
    ELSE Reduce(ts, i + 1,
                JsAdd(accumulator, ParseFloat(ts[i].transaction_amount)))

\* the average without the guard on the empty array
AverageOfNoGuard(ts) == JsDiv(Reduce(ts, 1, Num(0)), Len(ts))

AverageOf(ts) ==
    IF Len(ts) = 0 THEN Num(0)
    ELSE JsDiv(Reduce(ts, 1, Num(0)), Len(ts))

CalculateAverageTransactionAmount(self) ==
    /\ Idle
    /\ call' = [op |-> "calculateAverageTransactionAmount", self |-> self,
                args |-> <<>>, tx |-> <<>>]
    /\ ret' = RetVal(AverageOf(transactions[self]))
    /\ errorReported' = FALSE
    /\ scanned' = Len(transactions[self])
    /\ UNCHANGED <<transactions, initial, added, view>>

\* ---------------------------------------- getTransactionsByAmountRange
\* the filter with exclusive bounds
InAmountRangeExclusive(transaction, minAmount, maxAmount) ==
    LET amount == ParseFloat(transaction.transaction_amount)
    IN  JsGt(amount, minAmount) /\ JsLt(amount, maxAmount)

InAmountRange(transaction, minAmount, maxAmount) ==
    LET amount == ParseFloat(transaction.transaction_amount)
    IN  JsGe(amount, minAmount) /\ JsLe(amount, maxAmount)

RECURSIVE FilterAmount(_, _, _, _, _)
FilterAmount(ts, i, out, minAmount, maxAmount) ==
    IF i > Len(ts) THEN out
    ELSE FilterAmount(ts, i + 1,
            IF InAmountRange(ts[i], minAmount, maxAmount)
            THEN Append(out, ts[i]) ELSE out,
            minAmount, maxAmount)

GetTransactionsByAmountRange(self, minAmount, maxAmount) ==
    /\ Idle
    /\ call' = [op |-> "getTransactionsByAmountRange", self |-> self,
                args |-> <<minAmount, maxAmount>>, tx |-> <<>>]
    /\ ret' = RetArray(FilterAmount(transactions[self], 1, <<>>, minAmount, maxAmount))
    /\ errorReported' = FALSE
    /\ scanned' = Len(transactions[self])
    /\ UNCHANGED <<transactions, initial, added, view>>

\* ------------------------------------------------ findMost...Month
\* An object used as a counter table: the sequence of its properties
\* <<key, value>> in the order they were created.
HasKey(obj, key) == \E j \in 1..Len(obj) : obj[j][1] = key
Get(obj, key) == obj[CHOOSE j \in 1..Len(obj) : obj[j][1] = key][2]

\* if (!obj[key]) obj[key] = 0;  obj[key]++
Increment(obj, key) ==
    IF HasKey(obj, key)
    THEN [j \in 1..Len(obj) |->
            IF obj[j][1] = key THEN <<key, obj[j][2] + 1>> ELSE obj[j]]
    ELSE Append(obj, <<key, 1>>)

RECURSIVE CountByMonth(_, _, _)
CountByMonth(ts, i, transactionCountByMonth) ==
    IF i > Len(ts) THEN transactionCountByMonth
    ELSE CountByMonth(ts, i + 1,
            Increment(transactionCountByMonth,
                      ToKey(NewDate(ts[i].transaction_date).Month)))

RECURSIVE DebitCountByMonth(_, _, _)
DebitCountByMonth(ts, i, debitTransactionCountByMonth) ==
    IF i > Len(ts) THEN debitTransactionCountByMonth
    ELSE DebitCountByMonth(ts, i + 1,
            IF ts[i].transaction_type = "debit"
            THEN Increment(debitTransactionCountByMonth,
                           ToKey(NewDate(ts[i].transaction_date).Month))
            ELSE debitTransactionCountByMonth)

\* keys[1..n] with the key of least integer value moved out, in keys order
RECURSIVE SortKeys(_)
SortKeys(keys) ==
    IF Len(keys) = 0 THEN <<>>
    ELSE LET m == CHOOSE j \in 1..Len(keys) :
                    \A h \in 1..Len(keys) :
                        ParseDigits(keys[j], 1, 0) <= ParseDigits(keys[h], 1, 0)
             rest == [h \in 1..(Len(keys) - 1) |->
                        IF h < m THEN keys[h] ELSE keys[h + 1]]
         IN  <<keys[m]>> \o SortKeys(rest)

\* keys visited in the order of their creation
ForInKeysInsertionOrder(obj) == [j \in 1..Len(obj) |-> obj[j][1]]

\* the order in which `for (const month in obj)` visits the keys: keys
\* that are array indices ("0".."11") come in ascending numeric order
ForInKeys(obj) == SortKeys([j \in 1..Len(obj) |-> obj[j][1]])

\* the selection loop: the running maximum is replaced on strictly greater
RECURSIVE SelectMost(_, _, _, _, _)
SelectMost(obj, keys, i, mostTransactionsMonth, maxTransactionCount) ==
    IF i > Len(keys) THEN mostTransactionsMonth
    ELSE IF Get(obj, keys[i]) > maxTransactionCount
         THEN SelectMost(obj, keys, i + 1, Str(keys[i]), Get(obj, keys[i]))
         ELSE SelectMost(obj, keys, i + 1, mostTransactionsMonth, maxTransactionCount)

\* parseInt(month) + 1
MonthResult(obj) ==
    JsAdd(ParseInt(SelectMost(obj, ForInKeys(obj), 1, Null, 0)), Num(1))

FindMostTransactionsMonth(self) ==
    /\ Idle
    /\ call' = [op |-> "findMostTransactionsMonth", self |-> self, args |-> <<>>, tx |-> <<>>]
    /\ ret' = RetVal(MonthResult(CountByMonth(transactions[self], 1, <<>>)))
    /\ errorReported' = FALSE
    /\ scanned' = Len(transactions[self])
    /\ UNCHANGED <<transactions, initial, added, view>>

FindMostDebitTransactionMonth(self) ==
    /\ Idle
    /\ call' = [op |-> "findMostDebitTransactionMonth", self |-> self, args |-> <<>>, tx |-> <<>>]
    /\ ret' = RetVal(MonthResult(DebitCountByMonth(transactions[self], 1, <<>>)))
    /\ errorReported' = FALSE
    /\ scanned' = Len(transactions[self])
    /\ UNCHANGED <<transactions, initial, added, view>>

\* ------------------------------------------------ findTransactionById
\* Array.prototype.find: the first element that satisfies the callback,
\* undefined when none does
RECURSIVE Find(_, _, _)
Find(ts, i, id) ==
    IF i > Len(ts) THEN RetVal(Undefined)
    ELSE IF StrictEq(Str(ts[i].transaction_id), id) THEN RetObject(ts[i])
    ELSE Find(ts, i + 1, id)

\* number of elements find() visits
RECURSIVE FindVisited(_, _, _)
FindVisited(ts, i, id) ==
    IF i > Len(ts) THEN Len(ts)
    ELSE IF StrictEq(Str(ts[i].transaction_id), id) THEN i
    ELSE FindVisited(ts, i + 1, id)

FindTransactionById(self, id) ==
    /\ Idle
    /\ call' = [op |-> "findTransactionById", self |-> self, args |-> <<id>>, tx |-> <<>>]
    /\ ret' = Find(transactions[self], 1, id)
    /\ errorReported' = FALSE
    /\ scanned' = FindVisited(transactions[self], 1, id)
    /\ UNCHANGED <<transactions, initial, added, view>>

\* ------------------------------------------------ mostTransactionTypes
RECURSIVE CountType(_, _, _, _)
CountType(ts, i, type, count) ==
    IF i > Len(ts) THEN count
    ELSE CountType(ts, i + 1, type,
                   IF ts[i].transaction_type = type THEN count + 1 ELSE count)

\* the comparison with `>=` in the place of the first `>`
MoreFrequentTieIsDebit(debitCount, creditCount) ==
    IF debitCount >= creditCount THEN "debit"
    ELSE IF creditCount > debitCount THEN "credit"
    ELSE "equal"

MoreFrequent(debitCount, creditCount) ==
    IF debitCount > creditCount THEN "debit"
    ELSE IF creditCount > debitCount THEN "credit"
    ELSE "equal"

MostTransactionTypes(self) ==
    /\ Idle
    /\ call' = [op |-> "mostTransactionTypes", self |-> self, args |-> <<>>, tx |-> <<>>]
    /\ ret' = RetString(MoreFrequent(CountType(transactions[self], 1, "debit", 0),
                                     CountType(transactions[self], 1, "credit", 0)))
    /\ errorReported' = FALSE
    /\ scanned' = Len(transactions[self])
    /\ UNCHANGED <<transactions, initial, added, view>>

\* ------------------------------------------------ dates as arguments
\* A date argument is the text "yyyy-mm-dd" as a string of characters;
\* a string that the code only compares for equality (a type, a merchant
\* name) is held whole, as a string of one element.
IsIsoDate(t) ==
    /\ Len(t) = 10
    /\ \A i \in {1, 2, 3, 4, 6, 7, 9, 10} : IsDigit(t[i])
    /\ t[5] = "-" /\ t[8] = "-"

\* the fields <<yyyy, mm, dd>> of an ISO date text
IsoFields(t) ==
    <<ParseDigits(SubSeq(t, 1, 4), 1, 0), ParseDigits(SubSeq(t, 6, 7), 1, 0),
      ParseDigits(SubSeq(t, 9, 10), 1, 0)>>

\* the number a Date converts to in a comparison: it orders the dates of
\* the model as their time values do
TimeValue(dt) == Num((dt.FullYear * 12 + dt.Month) * 31 + dt.Date)

\* the time value of `new Date(text)` for an argument; NaN (Invalid Date)
\* when the text is not a date
ArgTime(v) ==
    IF v.k = "string" /\ IsIsoDate(v.s) THEN TimeValue(NewDate(IsoFields(v.s)))
    ELSE NaN

\* ---------------------------------------------- getTransactionsByType
RECURSIVE FilterType(_, _, _, _)
FilterType(ts, i, out, type) ==
    IF i > Len(ts) THEN out
    ELSE FilterType(ts, i + 1,
            IF StrictEq(Str(<<ts[i].transaction_type>>), type)
            THEN Append(out, ts[i]) ELSE out,
            type)

\* the filter done in place (splice) on this.transactions
GetTransactionsByTypeInPlace(self, type) ==
    /\ Idle
    /\ call' = [op |-> "getTransactionsByType", self |-> self, args |-> <<type>>, tx |-> <<>>]
    /\ transactions' = [transactions EXCEPT ![self] = FilterType(@, 1, <<>>, type)]
    /\ ret' = RetBacking(self, FilterType(transactions[self], 1, <<>>, type))
    /\ errorReported' = FALSE
    /\ scanned' = Len(transactions[self])
    /\ UNCHANGED <<initial, added, view>>

GetTransactionsByType(self, type) ==
    /\ Idle
    /\ call' = [op |-> "getTransactionsByType", self |-> self, args |-> <<type>>, tx |-> <<>>]
    /\ ret' = RetArray(FilterType(transactions[self], 1, <<>>, type))
    /\ errorReported' = FALSE
    /\ scanned' = Len(transactions[self])
    /\ UNCHANGED <<transactions, initial, added, view>>

\* ----------------------------------------- getTransactionsInDateRange
RECURSIVE FilterDateRange(_, _, _, _, _)
FilterDateRange(ts, i, out, start, end) ==
    IF i > Len(ts) THEN out
    ELSE LET transactionDate == TimeValue(NewDate(ts[i].transaction_date))
         IN  FilterDateRange(ts, i + 1,
                IF JsGe(transactionDate, start) /\ JsLe(transactionDate, end)
                THEN Append(out, ts[i]) ELSE out,
                start, end)

GetTransactionsInDateRange(self, startDate, endDate) ==
    /\ Idle
    /\ call' = [op |-> "getTransactionsInDateRange", self |-> self,
                args |-> <<startDate, endDate>>, tx |-> <<>>]
    /\ ret' = RetArray(FilterDateRange(transactions[self], 1, <<>>,
                                       ArgTime(startDate), ArgTime(endDate)))
    /\ errorReported' = FALSE
    /\ scanned' = Len(transactions[self])
    /\ UNCHANGED <<transactions, initial, added, view>>

\* ------------------------------------------ getTransactionsByMerchant
RECURSIVE FilterMerchant(_, _, _, _)
FilterMerchant(ts, i, out, merchantName) ==
    IF i > Len(ts) THEN out
    ELSE FilterMerchant(ts, i + 1,
            IF StrictEq(Str(<<ts[i].merchant_name>>), merchantName)
            THEN Append(out, ts[i]) ELSE out,
            merchantName)

GetTransactionsByMerchant(self, merchantName) ==
    /\ Idle
    /\ call' = [op |-> "getTransactionsByMerchant", self |-> self,
                args |-> <<merchantName>>, tx |-> <<>>]
    /\ ret' = RetArray(FilterMerchant(transactions[self], 1, <<>>, merchantName))
    /\ errorReported' = FALSE
    /\ scanned' = Len(transactions[self])
    /\ UNCHANGED <<transactions, initial, added, view>>

\* ------------------------------------------ calculateTotalDebitAmount
RECURSIVE ReduceDebit(_, _, _)
ReduceDebit(ts, i, total) ==
    IF i > Len(ts) THEN total
    ELSE ReduceDebit(ts, i + 1,
            IF ts[i].transaction_type = "debit"
            THEN JsAdd(total, ParseFloat(ts[i].transaction_amount))
            ELSE total)

CalculateTotalDebitAmount(self) ==
    /\ Idle
    /\ call' = [op |-> "calculateTotalDebitAmount", self |-> self, args |-> <<>>, tx |-> <<>>]
    /\ ret' = RetVal(ReduceDebit(transactions[self], 1, Num(0)))
    /\ errorReported' = FALSE
    /\ scanned' = Len(transactions[self])
    /\ UNCHANGED <<transactions, initial, added, view>>

\* ------------------------------------------ getTransactionsBeforeDate
RECURSIVE FilterBefore(_, _, _, _)
FilterBefore(ts, i, out, targetDate) ==
    IF i > Len(ts) THEN out
    ELSE FilterBefore(ts, i + 1,
            IF JsLt(TimeValue(NewDate(ts[i].transaction_date)), targetDate)
            THEN Append(out, ts[i]) ELSE out,
            targetDate)

GetTransactionsBeforeDate(self, date) ==
    /\ Idle
    /\ call' = [op |-> "getTransactionsBeforeDate", self |-> self,
                args |-> <<date>>, tx |-> <<>>]
    /\ ret' = RetArray(FilterBefore(transactions[self], 1, <<>>, ArgTime(date)))
    /\ errorReported' = FALSE
    /\ scanned' = Len(transactions[self])
    /\ UNCHANGED <<transactions, initial, added, view>>

\* ----------------------------------------- mapTransactionDescriptions
MapDescriptions(ts) == [i \in 1..Len(ts) |-> ts[i].transaction_description]

MapTransactionDescriptions(self) ==
    /\ Idle
    /\ call' = [op |-> "mapTransactionDescriptions", self |-> self, args |-> <<>>, tx |-> <<>>]
    /\ ret' = RetStrings(MapDescriptions(transactions[self]))
    /\ errorReported' = FALSE
    /\ scanned' = Len(transactions[self])
    /\ UNCHANGED <<transactions, initial, added, view>>

Years == {Undefined, Num(0), Num(2019)}
Months == {Undefined, Num(0), Num(1), Num(13)}
Days == {Undefined, Num(0), Num(1), Num(14), Num(32)}
Amounts == {Num(50), Num(100), Num(200)}
Ids == {Str(<<"1">>), Str(<<"2">>), Str(<<"3">>),
        Str(<<"m", "i", "s", "s", "i", "n", "g", "-", "i", "d">>)}
Types == {Str(<<"debit">>), Str(<<"transfer">>), Str(<<"cash">>)}
Merchants == {Str(<<"SuperMart">>), Str(<<"Bank">>), Str(<<"Kiosk">>)}
Jan14 == Str(<<"2", "0", "1", "9", "-", "0", "1", "-", "1", "4">>)
Feb14 == Str(<<"2", "0", "1", "9", "-", "0", "2", "-", "1", "4">>)
NotADate == Str(<<"s", "o", "o", "n">>)
RangeDates == {Jan14, Feb14}
BeforeDates == {Jan14, Feb14, NotADate}

Next ==
    \/ \E self \in Ledgers, r \in Records : AddTransaction(self, r)
    \/ \E self \in Ledgers : GetAllTransactions(self)
    \/ \E self \in Ledgers : GetUniqueTransactionType(self)
    \/ \E self \in Ledgers : CalculateTotalAmount(self)
    \/ \E self \in Ledgers, year \in Years, month \in Months, day \in Days :
          CalculateTotalAmountByDate(self, year, month, day)
    \/ \E self \in Ledgers : CalculateAverageTransactionAmount(self)
    \/ \E self \in Ledgers, minAmount \in Amounts, maxAmount \in Amounts :
          GetTransactionsByAmountRange(self, minAmount, maxAmount)
    \/ \E self \in Ledgers : FindMostTransactionsMonth(self)
    \/ \E self \in Ledgers : FindMostDebitTransactionMonth(self)
    \/ \E self \in Ledgers, id \in Ids : FindTransactionById(self, id)
    \/ \E self \in Ledgers : MostTransactionTypes(self)
    \/ \E self \in Ledgers, type \in Types : GetTransactionsByType(self, type)
    \/ \E self \in Ledgers, startDate \in RangeDates, endDate \in RangeDates :
          GetTransactionsInDateRange(self, startDate, endDate)
    \/ \E self \in Ledgers, merchantName \in Merchants :
          GetTransactionsByMerchant(self, merchantName)
    \/ \E self \in Ledgers : CalculateTotalDebitAmount(self)
    \/ \E self \in Ledgers, date \in BeforeDates : GetTransactionsBeforeDate(self, date)
    \/ \E self \in Ledgers : MapTransactionDescriptions(self)
    \/ Consume

Spec == Init /\ [][Next]_vars

\* a caller that keeps the array returned by getAllTransactions() while
\* the ledgers are appended to
NextView ==
    \/ \E self \in Ledgers, r \in Records : AddTransaction(self, r)
    \/ \E self \in Ledgers : GetAllTransactions(self)
    \/ KeepView
    \/ DropView
    \/ Consume

SpecView == Init /\ [][NextView]_vars

\* ===================================================================
\* Properties
\* ===================================================================
Op == call.op
Own == transactions[call.self]

\* the coerced amount of a record
Amt(r) == ParseFloat(r.transaction_amount)

\* sum of the coerced amounts of the records of ts at the positions in I
RECURSIVE SumAt(_, _)
SumAt(ts, I) ==
    IF I = {} THEN Num(0)
    ELSE LET i == CHOOSE j \in I : TRUE
         IN  JsAdd(Amt(ts[i]), SumAt(ts, I \ {i}))

\* C1: calculateTotalAmount() on a ledger returns the sum of the coerced
\* amounts of exactly the records that ledger holds (0 when it holds none),
\* whatever any other ledger holds.
C1_TotalIsOwnSum ==
    Op = "calculateTotalAmount" => ret = RetVal(SumAt(Own, 1..Len(Own)))

\* a date component that is absent or zero
Wildcard(v) == v = Undefined \/ v = Num(0)
InRange(v, lo, hi) == v.k = "number" /\ v.d = 1 /\ v.n \in lo..hi
\* record r agrees with component v at field f of its date (1 year,
\* 2 month as written by the caller, 3 day)
Agrees(r, v, f) == Wildcard(v) \/ (v.k = "number" /\ r.transaction_date[f] = v.n)

\* C2: in calculateTotalAmountByDate(year, month, day) an absent or zero
\* component is a wildcard: when each component is absent, 0 or in range
\* (month 1..12, day 1..31) no error is reported and the result is the sum
\* of the amounts of exactly the records agreeing with every non-wildcard
\* component.
C2_AbsentOrZeroIsWildcard ==
    (/\ Op = "calculateTotalAmountByDate"
     /\ Wildcard(call.args[2]) \/ InRange(call.args[2], 1, 12)
     /\ Wildcard(call.args[3]) \/ InRange(call.args[3], 1, 31))
    => /\ ~errorReported
       /\ ret = RetVal(SumAt(Own, {i \in 1..Len(Own) :
                               /\ Agrees(Own[i], call.args[1], 1)
                               /\ Agrees(Own[i], call.args[2], 2)
                               /\ Agrees(Own[i], call.args[3], 3)}))

\* a supplied component outside lo..hi
SuppliedOutside(v, lo, hi) == v.k = "number" /\ (v.n < lo \/ v.n > hi)
InvalidArgs(args) == SuppliedOutside(args[2], 1, 12) \/ SuppliedOutside(args[3], 1, 31)

\* C3: calculateTotalAmountByDate with a supplied month outside 1..12 or a
\* supplied day outside 1..31 reports an error, returns 0 (a normal
\* return), examines no record and leaves every ledger unchanged.
C3_InvalidDateRejected ==
    [][(call'.op = "calculateTotalAmountByDate" /\ InvalidArgs(call'.args))
          => /\ errorReported'
             /\ ret' = RetVal(Num(0))
             /\ scanned' = 0
             /\ transactions' = transactions]_vars

C3_Witness ==
    /\ Op = "calculateTotalAmountByDate"
    /\ call.args = <<Num(0), Num(13), Num(1)>>
    /\ errorReported
    /\ ret = RetVal(Num(0))
    /\ Len(Own) >= 2

\* C4: a ledger constructed from S, after addTransaction(r1) ..
\* addTransaction(rN) interleaved with any queries, holds S followed by
\* r1..rN in call order, and getAllTransactions() returns that sequence.
C4_AppendOrder ==
    /\ \A l \in Ledgers :
          /\ transactions[l] = initial[l] \o added[l]
          /\ Len(transactions[l]) = Len(initial[l]) + Len(added[l])
    /\ Op = "getAllTransactions" =>
          ret = RetBacking(call.self, initial[call.self] \o added[call.self])

C4_Witness ==
    /\ Op = "getAllTransactions"
    /\ Len(initial[call.self]) = 1
    /\ Len(added[call.self]) >= 2
    /\ added[call.self][1] # added[call.self][2]
    /\ ret = RetBacking(call.self, transactions[call.self])

\* positions of ts whose record has the id
Matches(ts, id) ==
    {i \in 1..Len(ts) : id.k = "string" /\ ts[i].transaction_id = id.s}
Lowest(I) == CHOOSE i \in I : \A j \in I : i <= j

\* C5: findTransactionById(id) returns the record at the lowest position
\* whose transaction_id equals id, and null when no record matches.
C5_FirstMatchOrNull ==
    Op = "findTransactionById" =>
        IF Matches(Own, call.args[1]) = {}
        THEN ret = RetVal(Null)
        ELSE ret = RetObject(Own[Lowest(Matches(Own, call.args[1]))])

\* C6: findMostTransactionsMonth() and findMostDebitTransactionMonth()
\* return a month number in 1..12 for every ledger of validly dated
\* records.
C6_MonthInRange ==
    Op \in {"findMostTransactionsMonth", "findMostDebitTransactionMonth"}
        => ret.val.k = "number" /\ ret.val.d = 1 /\ ret.val.n \in 1..12

\* number of records of ts in the 0-indexed month m
CountIn(ts, m) == Cardinality({i \in 1..Len(ts) : ts[i].transaction_date[2] - 1 = m})
IsMax(ts, m) == \A o \in 0..11 : CountIn(ts, o) <= CountIn(ts, m)
LowestMax(ts) == CHOOSE m \in 0..11 :
                    IsMax(ts, m) /\ \A o \in 0..11 : IsMax(ts, o) => m <= o

\* C7: on a non-empty ledger findMostTransactionsMonth() returns m+1 where
\* m is the lowest 0-indexed month among those of maximal record count,
\* whatever the order in which the months first appear.
C7_LowestMonthWinsTie ==
    (Op = "findMostTransactionsMonth" /\ Len(Own) > 0)
        => ret = RetVal(Num(LowestMax(Own) + 1))

\* a tie for the maximum whose first-seen month is not the lowest one
C7_Witness ==
    /\ Op = "findMostTransactionsMonth"
    /\ Len(Own) >= 2
    /\ \E o \in 0..11 : o # LowestMax(Own) /\ IsMax(Own, o)
    /\ Own[1].transaction_date[2] - 1 # LowestMax(Own)
    /\ IsMax(Own, Own[1].transaction_date[2] - 1)
    /\ ret = RetVal(Num(LowestMax(Own) + 1))

FirstAt(ts, type) == Lowest({i \in 1..Len(ts) : ts[i].transaction_type = type})

\* C8: getUniqueTransactionType() returns a duplicate-free sequence holding
\* exactly the transaction_type values of the ledger, ordered by first
\* occurrence; the empty ledger gives the empty sequence.
C8_UniqueTypesFirstSeen ==
    Op = "getUniqueTransactionType" =>
        LET u == ret.strs
        IN  /\ ret = RetStrings(u)
            /\ \A a, b \in 1..Len(u) : a # b => u[a] # u[b]
            /\ {u[a] : a \in 1..Len(u)} =
                  {Own[i].transaction_type : i \in 1..Len(Own)}
            /\ \A a, b \in 1..Len(u) :
                  a < b => FirstAt(Own, u[a]) < FirstAt(Own, u[b])
            /\ Len(Own) = 0 => u = <<>>

C8_Witness ==
    /\ Op = "getUniqueTransactionType"
    /\ Len(Own) = 3
    /\ Own[1].transaction_type = "debit"
    /\ Own[2].transaction_type = "credit"
    /\ Own[3].transaction_type = "debit"
    /\ ret = RetStrings(<<"debit", "credit">>)

\* C9: calculateAverageTransactionAmount() returns 0 on an empty ledger and
\* otherwise (sum of the coerced amounts of the ledger's own records) /
\* (number of records); one record of amount 50 gives 50.
C9_AverageIsSumOverCount ==
    Op = "calculateAverageTransactionAmount" =>
        LET total == SumAt(Own, 1..Len(Own))
            avg == ret.val
        IN  /\ ret = RetVal(avg)
            /\ Len(Own) = 0 => avg = Num(0)
            /\ (Len(Own) > 0 /\ total.k = "NaN") => avg = NaN
            /\ (Len(Own) > 0 /\ total.k = "number") =>
                  /\ avg.k = "number"
                  /\ avg.d > 0
                  /\ avg.n * Len(Own) = total.n * avg.d
                  /\ Gcd(avg.n, avg.d) = 1
            /\ (Len(Own) = 1 /\ Amt(Own[1]) = Num(50)) => avg = Num(50)

C9_Witness ==
    /\ Op = "calculateAverageTransactionAmount"
    /\ call.self = "other"
    /\ Len(Own) = 2
    /\ transactions["analyzer"] # Own
    /\ ret = RetVal(Num(75))

\* the records of ts whose coerced amount a has lo <= a <= hi, in order
AmountBetween(ts, lo, hi) ==
    LET Keep(r) == Amt(r).k = "number" /\ lo.n <= Amt(r).n /\ Amt(r).n <= hi.n
    IN  SelectSeq(ts, Keep)

\* C10: getTransactionsByAmountRange(min, max) returns, in ledger order,
\* exactly the records whose coerced amount a has min <= a <= max, bounds
\* included; it is empty when min > max.
C10_AmountRangeInclusive ==
    Op = "getTransactionsByAmountRange" =>
        /\ ret = RetArray(AmountBetween(Own, call.args[1], call.args[2]))
        /\ call.args[1].n > call.args[2].n => ret.objs = <<>>

C10_Witness ==
    /\ Op = "getTransactionsByAmountRange"
    /\ call.args = <<Num(100), Num(100)>>
    /\ Len(Own) = 3
    /\ Len(ret.objs) = 1
    /\ Amt(ret.objs[1]) = Num(100)

\* number of records of ts with the type
NumOfType(ts, type) == Cardinality({i \in 1..Len(ts) : ts[i].transaction_type = type})

\* C11: mostTransactionTypes() returns "debit" iff the debit records
\* strictly outnumber the credit records, "credit" iff they are strictly
\* fewer, "equal" otherwise (empty ledger included); records of any other
\* type do not count.
C11_MostTypeStrict ==
    Op = "mostTransactionTypes" =>
        LET nd == NumOfType(Own, "debit")
            nc == NumOfType(Own, "credit")
        IN  /\ ret.kind = "string"
            /\ (ret = RetString("debit")) <=> (nd > nc)
            /\ (ret = RetString("credit")) <=> (nd < nc)
            /\ (ret = RetString("equal")) <=> (nd = nc)

\* one debit, one credit and a record of another type: a tie
C11_Witness ==
    /\ Op = "mostTransactionTypes"
    /\ Len(Own) = 3
    /\ NumOfType(Own, "debit") = 1
    /\ NumOfType(Own, "credit") = 1
    /\ NumOfType(Own, "transfer") = 1
    /\ ret = RetString("equal")

\* C12: getAllTransactions() returns the ledger's live array, not a copy:
\* an array obtained from a ledger equals that ledger's current sequence
\* at every later point, and a later addTransaction(r) on the ledger
\* makes it one longer with r last.
C12_ViewIsLive ==
    [][/\ view'.of \in Ledgers => ViewValue' = transactions'[view'.of]
       /\ (/\ view.of \in Ledgers
           /\ view' = view
           /\ call'.op = "addTransaction"
           /\ call'.self = view.of
           /\ transactions' # transactions)
          => /\ Len(ViewValue') = Len(ViewValue) + 1
             /\ ViewValue'[Len(ViewValue')] = call'.tx[1]]_vars

\* an array kept from "other", then two different records appended to it
C12_Witness ==
    /\ view.of = "other"
    /\ Op = "addTransaction"
    /\ call.self = "other"
    /\ Len(added["other"]) >= 2
    /\ added["other"][1] # added["other"][2]
    /\ Len(ViewValue) = Len(initial["other"]) + Len(added["other"])
    /\ ViewValue[Len(ViewValue)] = call.tx[1]

\* the operations that build their result with filter or map
FilterMapOps ==
    {"getTransactionsByType", "getTransactionsInDateRange",
     "getTransactionsByMerchant", "getTransactionsByAmountRange",
     "getTransactionsBeforeDate", "mapTransactionDescriptions"}

\* C13: addTransaction is the only operation that changes a ledger: a
\* step of any other operation, whatever its arguments, leaves every
\* ledger's sequence as it was, and the filter/map operations return a
\* new array, not the ledger's own.
C13_OnlyAddWrites ==
    [][/\ call'.op # "addTransaction" => transactions' = transactions
       /\ call'.op \in FilterMapOps => ret'.ref = "new"]_vars

\* a filter that keeps every record of a three-record ledger: the result
\* has the ledger's elements and is still another array
C13_Witness ==
    /\ Op \in FilterMapOps
    /\ ret.kind = "array"
    /\ Len(Own) = 3
    /\ ret.objs = Own
    /\ ret.ref = "new"
    /\ Len(added[call.self]) >= 1
====
